---- MODULE Spec2Model ----
(***************************************************************************)
(* A model of the memory-layout engine of narrow: the bit-packed Bitmap,   *)
(* the Offset encoding of variable-size lists, nullable storage, and the   *)
(* struct-of-arrays composition.                                           *)
(*                                                                         *)
(* Bytes are integers 0..255.  An Option<T> is a sequence of length at     *)
(* most one: None is <<>> and Some(v) is <<v>>.                            *)
(***************************************************************************)
EXTENDS Integers, Sequences, FiniteSets, TLC

VARIABLES
    bitmap,   \* the Bitmap: [buffer, bits, offset]
    input,    \* the booleans handed to from_iter / extend so far, in order
    origin,   \* how the bitmap was formed: "default", "from_iter" or "raw"
    extends,  \* [count, last]: the extend calls made, the length of the last one's input
    parts,    \* the (buffer, bits, offset) handed to from_raw_parts
    result,   \* what the last inspecting operation returned
    array,    \* the array under construction (list, primitive or struct)
    items,    \* the items handed to the array so far, in order
    calls,    \* [ty, origin, grown]: the array's type, how it was built, whether extended
    answer    \* what the last inspecting operation on the array returned

vars == <<bitmap, input, origin, extends, parts, result, array, items, calls, answer>>
bitmapVars == <<bitmap, input, origin, extends, parts, result>>
arrayVars == <<array, items, calls, answer>>

(***************************************************************************)
(* Bounds of the model.                                                    *)
(***************************************************************************)
\* The most bits a bitmap built by from_iter and extend holds.
MaxBits == 9
\* The most extend calls made on one bitmap.
MaxExtends == 2
\* The most bytes of a buffer handed to from_raw_parts.
MaxRawBytes == 2
\* The most items (rows, records) handed to an array.
MaxItems == 4
\* The most bits appended to a bitmap formed from raw parts.
MaxRawExtend == 1

\* The number of bits of a byte (u8).
ByteBits == 8

(***************************************************************************)
(* Option and small helpers.                                               *)
(***************************************************************************)
None == <<>>
Some(v) == <<v>>
is_some(opt) == Len(opt) = 1

Min(a, b) == IF a <= b THEN a ELSE b

\* All boolean sequences of length at most n.
BoolSeqs(n) == UNION {[1..k -> BOOLEAN] : k \in 0..n}

\* Iterator::skip and Iterator::take on a finite sequence.
Skip(n, s) == IF n >= Len(s) THEN <<>> ELSE SubSeq(s, n + 1, Len(s))
Take(n, s) == IF n >= Len(s) THEN s ELSE SubSeq(s, 1, n)

(***************************************************************************)
(* Bits of a byte, least-significant-bit first.                            *)
(***************************************************************************)
\* byte & 1 << k != 0
BitOf(byte, k) == (byte \div (2 ^ k)) % 2 = 1

\* A store that assigns the bit's mask to the byte instead of or-ing it in.
SetBit_assigning(byte, k) == 2 ^ k

\* byte |= 1 << k
SetBit(byte, k) == IF (byte \div (2 ^ k)) % 2 = 1 THEN byte ELSE byte + 2 ^ k

(***************************************************************************)
(* Bit packing and unpacking (bitmap/iter.rs).                             *)
(***************************************************************************)
RECURSIVE PackGroup(_, _, _)
\* The byte packing the (at most 8) booleans of xs that start at position
\* first (0-based), from bit j up: element first + j goes to bit j, and the
\* bits of a partial group that have no element stay zero.
PackGroup(xs, first, j) ==
    IF j >= ByteBits \/ first + j >= Len(xs) THEN 0
    ELSE (IF xs[first + j + 1] THEN 2 ^ j ELSE 0) + PackGroup(xs, first, j + 1)

\* bit_packed: groups of 8 booleans, one byte per group.
BitPacked(xs) ==
    [k \in 1..((Len(xs) + ByteBits - 1) \div ByteBits) |->
        PackGroup(xs, ByteBits * (k - 1), 0)]

\* bit_unpacked: 8 booleans per byte, least-significant bit first.
BitUnpacked(bytes) ==
    [p \in 1..(ByteBits * Len(bytes)) |->
        BitOf(bytes[((p - 1) \div ByteBits) + 1], (p - 1) % ByteBits)]

(***************************************************************************)
(* Bitmap (bitmap/mod.rs).                                                 *)
(***************************************************************************)
\* Bitmap::from_raw_parts
from_raw_parts(buffer, bits, offset) ==
    [buffer |-> buffer, bits |-> bits, offset |-> offset]

\* A default bitmap that comes with one zeroed byte allocated.
Bitmap_default_one_byte == [buffer |-> <<0>>, bits |-> 0, offset |-> 0]

\* Default for Bitmap
Bitmap_default == [buffer |-> <<>>, bits |-> 0, offset |-> 0]

\* Length for Bitmap
Bitmap_len(bm) == bm.bits

\* Bitmap::leading_bits
leading_bits(bm) == bm.offset

\* A padding count that takes a whole byte for a bitmap ending on a byte
\* boundary.
trailing_bits_whole_byte(bm) == ByteBits - ((bm.offset + bm.bits) % ByteBits)

\* A padding count that is not turned into the free bits of the last byte.
trailing_bits_unflipped(bm) == (bm.offset + bm.bits) % ByteBits

\* Bitmap::trailing_bits
trailing_bits(bm) ==
    LET trailing == (bm.offset + bm.bits) % ByteBits
    IN  IF trailing # 0 THEN ByteBits - trailing ELSE 0

\* Bitmap::bit_index
bit_index(bm, index) == (bm.offset + index) % ByteBits

\* Bitmap::byte_index
byte_index(bm, index) == (bm.offset + index) \div ByteBits

\* Whether get_unchecked(index) reads a byte of the buffer (otherwise the
\* read is outside the slice: undefined behaviour).
InBuffer(bm, index) == byte_index(bm, index) < Len(bm.buffer)

\* A read that takes the bits of a byte most-significant bit first.
get_unchecked_msb_first(bm, index) ==
    IF byte_index(bm, index) < Len(bm.buffer)
    THEN {BitOf(bm.buffer[byte_index(bm, index) + 1], ByteBits - 1 - bit_index(bm, index))}
    ELSE BOOLEAN

\* Bitmap::get_unchecked: the set of values the read can produce.  A read
\* outside the buffer is undefined behaviour and can produce either value.
get_unchecked(bm, index) ==
    IF InBuffer(bm, index)
    THEN {BitOf(bm.buffer[byte_index(bm, index) + 1], bit_index(bm, index))}
    ELSE BOOLEAN

\* A bounds check that lets index = len through.
get_in_bounds_inclusive(bm, index) == index <= bm.bits

\* The bounds check of Bitmap::get.
get_in_bounds(bm, index) == index < Bitmap_len(bm)

\* Bitmap::get: the set of values it can return (one, unless the read is
\* undefined behaviour).
Bitmap_get(bm, index) ==
    IF get_in_bounds(bm, index)
    THEN {Some(b) : b \in get_unchecked(bm, index)}
    ELSE {None}

\* A bounds check that panics only past index = len.
index_panics_past_len(bm, index) == index > bm.bits

\* The bounds check of Index::index: whether it panics.
index_panics(bm, index) ==
    LET len == bm.bits
    IN  index >= len

\* Index<usize> for Bitmap: the set of results; a panic returns nothing.
Bitmap_index(bm, index) ==
    IF index_panics(bm, index)
    THEN {None}
    ELSE {Some(b) : b \in get_unchecked(bm, index)}

\* An iteration that forgets to truncate to bits: the padding is yielded too.
into_iter_without_take(bm) == Skip(bm.offset, BitUnpacked(bm.buffer))

\* An iteration that skips only the sub-byte part of the offset.
into_iter_sub_byte_skip(bm) ==
    Take(bm.bits, Skip(bm.offset % ByteBits, BitUnpacked(bm.buffer)))

\* IntoIterator for &Bitmap and for Bitmap: unpack, skip offset, take bits.
Bitmap_into_iter(bm) == Take(bm.bits, Skip(bm.offset, BitUnpacked(bm.buffer)))

\* A from_iter that takes the logical length from the bytes it packed.
from_iter_bits_by_byte(xs) ==
    [buffer |-> BitPacked(xs), bits |-> ByteBits * Len(BitPacked(xs)), offset |-> 0]

\* FromIterator for Bitmap
Bitmap_from_iter(xs) ==
    [buffer |-> BitPacked(xs), bits |-> Len(xs), offset |-> 0]

\* A fill loop that takes the items and stores none of them.
fill_last_byte_storing_nothing(byte, bit_position, ys, k) == byte

RECURSIVE FillLastByte(_, _, _, _)
\* The loop of Bitmap::extend over the free bit positions of the last byte:
\* each position takes the next item of the iterator, if there is one.
\* k counts the items taken so far.
FillLastByte(byte, bit_position, ys, k) ==
    IF bit_position >= ByteBits THEN byte
    ELSE IF k < Len(ys)
         THEN FillLastByte(IF ys[k + 1] THEN SetBit(byte, bit_position) ELSE byte,
                           bit_position + 1, ys, k + 1)
         ELSE FillLastByte(byte, bit_position + 1, ys, k)

\* Whether Bitmap::extend panics at buffer.as_mut_slice()[last_byte_index].
extend_panics(bm) ==
    trailing_bits(bm) # 0 /\ byte_index(bm, bm.bits) >= Len(bm.buffer)

\* An extend that never fills the free bits of the last byte: every new
\* item goes to a fresh byte.
extend_without_fill(bm, ys) ==
    [buffer |-> bm.buffer \o BitPacked(ys),
     bits |-> bm.bits + Len(ys),
     offset |-> bm.offset]

\* An extend that counts only the items packed into new bytes, not those
\* that filled the last byte.
extend_counting_packed_only(bm, ys) ==
    LET trailing == trailing_bits(bm)
        filled ==
            IF trailing # 0
            THEN [bm.buffer EXCEPT ![byte_index(bm, bm.bits) + 1] =
                      FillLastByte(@, ByteBits - trailing, ys, 0)]
            ELSE bm.buffer
        rest == Skip(trailing, ys)
    IN  [buffer |-> filled \o BitPacked(rest),
         bits |-> bm.bits + Len(rest),
         offset |-> bm.offset]

\* An extend that fills the last byte and counts every item, and appends no
\* byte.
extend_without_packing(bm, ys) ==
    LET trailing == trailing_bits(bm)
    IN  [buffer |-> IF trailing # 0
                    THEN [bm.buffer EXCEPT ![byte_index(bm, bm.bits) + 1] =
                              FillLastByte(@, ByteBits - trailing, ys, 0)]
                    ELSE bm.buffer,
         bits |-> bm.bits + Len(ys),
         offset |-> bm.offset]

\* Extend for Bitmap
Bitmap_extend(bm, ys) ==
    LET trailing == trailing_bits(bm)
        last_byte_index == byte_index(bm, bm.bits)
        filled ==
            IF trailing # 0
            THEN [bm.buffer EXCEPT ![last_byte_index + 1] =
                      FillLastByte(@, ByteBits - trailing, ys, 0)]
            ELSE bm.buffer
        rest == Skip(trailing, ys)
        additional_bits == Min(trailing, Len(ys)) + Len(rest)
    IN  [buffer |-> filled \o BitPacked(rest),
         bits |-> bm.bits + additional_bits,
         offset |-> bm.offset]

\* The invariant of a Bitmap: the buffer holds offset + bits bits.
BitmapInv(bm) == bm.offset + bm.bits <= ByteBits * Len(bm.buffer)

(***************************************************************************)
(* Arrays.  An array type is a record [kind, nullable, ...]:               *)
(*   "prim"    a FixedSizePrimitiveArray, zero its element's default;      *)
(*   "bool"    a BooleanArray, its values a Bitmap;                        *)
(*   "unit"    a NullArray of (), which stores only a length;              *)
(*   "list"    a VariableSizeListArray over a child array type;            *)
(*   "struct"  a StructArray: one column per field, zero the record's      *)
(*             default.                                                    *)
(* An item of a nullable array is an Option.  The unit value () is <<>>.   *)
(***************************************************************************)
PrimT(nullable, zero) == [kind |-> "prim", nullable |-> nullable, zero |-> zero]
BoolT(nullable) == [kind |-> "bool", nullable |-> nullable]
UnitT(nullable) == [kind |-> "unit", nullable |-> nullable]
ListT(nullable, child) == [kind |-> "list", nullable |-> nullable, child |-> child]
StructT(nullable, fields, zero) ==
    [kind |-> "struct", nullable |-> nullable, fields |-> fields, zero |-> zero]

Last(s) == s[Len(s)]

RECURSIVE Array_default(_)
\* Default: no element, an empty presence bitmap, for a list the offsets
\* [0] over an empty child array, for a struct its columns' defaults.
Array_default(ty) ==
    CASE ty.kind = "prim" ->
            [kind |-> "prim", nullable |-> ty.nullable, zero |-> ty.zero,
             values |-> <<>>, validity |-> Bitmap_default]
      [] ty.kind = "bool" ->
            [kind |-> "bool", nullable |-> ty.nullable,
             values |-> Bitmap_default, validity |-> Bitmap_default]
      [] ty.kind = "unit" ->
            [kind |-> "unit", nullable |-> ty.nullable,
             len |-> 0, validity |-> Bitmap_default]
      [] ty.kind = "list" ->
            [kind |-> "list", nullable |-> ty.nullable,
             offsets |-> <<0>>, validity |-> Bitmap_default,
             data |-> Array_default(ty.child)]
      [] ty.kind = "struct" ->
            [kind |-> "struct", nullable |-> ty.nullable, zero |-> ty.zero,
             columns |-> [f \in DOMAIN ty.fields |-> Array_default(ty.fields[f])],
             validity |-> Bitmap_default]

\* Nullable storage: the presence bit of an item is pushed to the bitmap.
Nullable_push(validity, present) == Bitmap_extend(validity, <<present>>)

RECURSIVE Array_push(_, _)
RECURSIVE Array_len(_)
RECURSIVE Array_extend(_, _)
RECURSIVE Offset_push(_, _, _)
RECURSIVE FooArray_extend(_, _)

RECURSIVE InnermostLen(_)
\* The number of leaf values under an array.
InnermostLen(arr) ==
    IF arr.kind = "list" THEN InnermostLen(arr.data) ELSE Array_len(arr)

\* An Offset whose offsets count the leaf values under a row, not the
\* elements of the immediate child array.
offset_push_leaf_count(arr, present, row) ==
    IF present
    THEN [arr EXCEPT !.data = Array_extend(@, row),
                     !.offsets = Append(@, Last(@) + InnermostLen(Array_extend(arr.data, row))
                                                   - InnermostLen(arr.data))]
    ELSE [arr EXCEPT !.offsets = Append(@, Last(@))]

\* An Offset whose pushed offset is the row length alone.
offset_push_restart(arr, present, row) ==
    IF present
    THEN [arr EXCEPT !.data = Array_extend(@, row),
                     !.offsets = Append(@, Len(row))]
    ELSE [arr EXCEPT !.offsets = Append(@, Last(@))]

\* Offset: a present row appends its elements to the flattened child array
\* and pushes previous offset + row length; an absent row appends nothing
\* and repeats the previous offset.
Offset_push(arr, present, row) ==
    IF present
    THEN [arr EXCEPT !.data = Array_extend(@, row),
                     !.offsets = Append(@, Last(@) + Len(row))]
    ELSE [arr EXCEPT !.offsets = Append(@, Last(@))]

\* An Extend for FooArray that takes the first record of the iterator only.
FooArray_extend_first_only(columns, recs) ==
    IF recs = <<>> THEN columns
    ELSE [f \in DOMAIN columns |-> Array_extend(columns[f], <<recs[1][f]>>)]

\* Extend for FooArray: each record is taken apart and each field is
\* handed to its own column, record by record.
FooArray_extend(columns, recs) ==
    IF recs = <<>> THEN columns
    ELSE FooArray_extend(
            [f \in DOMAIN columns |-> Array_extend(columns[f], <<recs[1][f]>>)],
            Skip(1, recs))

\* One item appended to an array of any kind.
Array_push(arr, item) ==
    LET present == IF arr.nullable THEN is_some(item) ELSE TRUE
        value == IF arr.nullable THEN item[1] ELSE item
        stored ==
            CASE arr.kind = "prim" ->
                    [arr EXCEPT !.values = Append(@, IF present THEN value ELSE arr.zero)]
              [] arr.kind = "bool" ->
                    [arr EXCEPT !.values =
                        Bitmap_extend(@, <<IF present THEN value ELSE FALSE>>)]
              [] arr.kind = "unit" ->
                    [arr EXCEPT !.len = @ + 1]
              [] arr.kind = "list" ->
                    Offset_push(arr, present, IF present THEN value ELSE <<>>)
              [] arr.kind = "struct" ->
                    [arr EXCEPT !.columns =
                        FooArray_extend(@, <<IF present THEN value ELSE arr.zero>>)]
    IN  IF arr.nullable
        THEN [stored EXCEPT !.validity = Nullable_push(@, present)]
        ELSE stored

\* Extend: the items are appended one by one, in order.
Array_extend(arr, its) ==
    IF its = <<>> THEN arr
    ELSE Array_extend(Array_push(arr, its[1]), Skip(1, its))

\* FromIterator: Default, then Extend.
Array_from_iter(ty, its) == Array_extend(Array_default(ty), its)

\* Length: of nullable storage the length of the presence bitmap; of a
\* list the number of offsets less one; of a struct its columns' length.
Array_len(arr) ==
    IF arr.nullable THEN Bitmap_len(arr.validity)
    ELSE CASE arr.kind = "prim" -> Len(arr.values)
           [] arr.kind = "bool" -> Bitmap_len(arr.values)
           [] arr.kind = "unit" -> arr.len
           [] arr.kind = "list" -> Len(arr.offsets) - 1
           [] arr.kind = "struct" ->
                Array_len(arr.columns[CHOOSE f \in DOMAIN arr.columns : TRUE])

\* BitmapRef::bitmap_ref of a nullable array.
bitmap_ref(arr) == arr.validity

\* ValidityBitmap::is_valid: the values it can return.  Non-nullable
\* storage has no bitmap and reports every element in range valid.
is_valid(arr, index) ==
    IF arr.nullable THEN Bitmap_get(bitmap_ref(arr), index)
    ELSE IF index < Array_len(arr) THEN {Some(TRUE)} ELSE {None}

\* ValidityBitmap::is_null: the values it can return.
is_null(arr, index) ==
    {IF v = None THEN None ELSE Some(~v[1]) : v \in is_valid(arr, index)}

\* Whether element index of the array reads as present.
Present(arr, index) == Some(TRUE) \in is_valid(arr, index)

RECURSIVE Array_get(_, _)
\* Element index (0-based) of an array as its iterator yields it: an
\* Option for a nullable array, a row of child elements for a list, a
\* record of field values for a struct.
Array_get(arr, index) ==
    LET value ==
            CASE arr.kind = "prim" -> arr.values[index + 1]
              [] arr.kind = "bool" -> Bitmap_into_iter(arr.values)[index + 1]
              [] arr.kind = "unit" -> <<>>
              [] arr.kind = "list" ->
                    [k \in 1..(arr.offsets[index + 2] - arr.offsets[index + 1]) |->
                        Array_get(arr.data, arr.offsets[index + 1] + k - 1)]
              [] arr.kind = "struct" ->
                    [f \in DOMAIN arr.columns |-> Array_get(arr.columns[f], index)]
    IN  IF arr.nullable
        THEN (IF Present(arr, index) THEN Some(value) ELSE None)
        ELSE value

(***************************************************************************)
(* VariableSizeListArray (array/variable_size_list.rs): a wrapper of       *)
(* Offset.                                                                 *)
(***************************************************************************)
\* Default for VariableSizeListArray
VariableSizeListArray_default(ty) == Array_default(ty)

\* Extend for VariableSizeListArray
VariableSizeListArray_extend(arr, rows) == Array_extend(arr, rows)

\* FromIterator for VariableSizeListArray
VariableSizeListArray_from_iter(ty, rows) == Array_from_iter(ty, rows)

\* Length for VariableSizeListArray
VariableSizeListArray_len(arr) == Array_len(arr)

(***************************************************************************)
(* StructArray and the FooArray of its test (array/struct.rs).             *)
(***************************************************************************)
\* An unzip whose last two columns, both lists of u8, are swapped.
FooArray_from_iter_swapped(fields, recs) ==
    [f \in DOMAIN fields |->
        Array_extend(Array_default(fields[f]),
                     [j \in 1..Len(recs) |->
                        recs[j][IF f = "f" THEN "g" ELSE IF f = "g" THEN "f" ELSE f]])]

\* FromIterator for FooArray: the records are unzipped, and each column is
\* built from the sequence of its field's values.
FooArray_from_iter(fields, recs) ==
    [f \in DOMAIN fields |->
        Array_extend(Array_default(fields[f]), [j \in 1..Len(recs) |-> recs[j][f]])]

\* FromIterator for StructArray: the storage collects the items; nullable
\* storage collects the presence bits and the unwrapped records.
StructArray_from_iter(ty, its) ==
    IF ty.nullable
    THEN Array_from_iter(ty, its)
    ELSE [Array_default(ty) EXCEPT !.columns = FooArray_from_iter(ty.fields, its)]

\* Length for StructArray
StructArray_len(arr) == Array_len(arr)

(***************************************************************************)
(* The bitmap as a state machine.                                          *)
(***************************************************************************)
\* The bytes a buffer handed to from_raw_parts is made of: 0b10100000 and
\* 0b01011010.
RawBytes == {160, 90}

\* The buffers handed to from_raw_parts.
RawBuffers == UNION {[1..k -> RawBytes] : k \in 0..MaxRawBytes}

\* The indexes get and the indexing operator are called with: every
\* position of the largest buffer, and one past it.
Indexes == 0..(ByteBits * MaxRawBytes + 1)

NoResult == [op |-> "none", index |-> 0, value |-> <<>>, panicked |-> FALSE, oob |-> FALSE]
NoExtends == [count |-> 0, last |-> 0]
NoParts == [buffer |-> <<>>, bits |-> 0, offset |-> 0]

BitmapInit ==
    /\ bitmap = Bitmap_default
    /\ input = <<>>
    /\ origin = "default"
    /\ extends = NoExtends
    /\ parts = NoParts
    /\ result = NoResult

\* A consumed bitmap takes no further operation, and an operation starts
\* once the value the last one returned has been dropped.
Ready == result.op = "none"

\* bitmap = xs.iter().collect::<Bitmap>()
FromIter ==
    /\ Ready
    /\ origin = "default"
    /\ extends.count = 0
    /\ \E xs \in BoolSeqs(MaxBits) :
          /\ bitmap' = Bitmap_from_iter(xs)
          /\ input' = xs
    /\ origin' = "from_iter"
    /\ UNCHANGED <<extends, parts, result, arrayVars>>

\* bitmap = unsafe { Bitmap::from_raw_parts(buffer, bits, offset) }, the
\* caller keeping the safety contract offset + bits <= 8 * buffer.len().
FromRawParts ==
    /\ Ready
    /\ origin = "default"
    /\ extends.count = 0
    /\ \E buffer \in RawBuffers :
       \E offset \in 0..(ByteBits * Len(buffer)) :
       \E bits \in 0..(ByteBits * Len(buffer) - offset) :
          /\ bitmap' = from_raw_parts(buffer, bits, offset)
          /\ parts' = [buffer |-> buffer, bits |-> bits, offset |-> offset]
    /\ origin' = "raw"
    /\ UNCHANGED <<input, extends, result, arrayVars>>

\* bitmap.extend(ys)
Extend ==
    /\ Ready
    /\ origin \in {"default", "from_iter"}
    /\ extends.count < MaxExtends
    /\ ~extend_panics(bitmap)
    /\ \E ys \in BoolSeqs(MaxBits - bitmap.bits) :
          /\ bitmap' = Bitmap_extend(bitmap, ys)
          /\ input' = input \o ys
          /\ extends' = [count |-> extends.count + 1, last |-> Len(ys)]
    /\ UNCHANGED <<origin, parts, result, arrayVars>>

\* bitmap.get(index)
Get ==
    /\ Ready
    /\ \E i \in Indexes :
       \E v \in Bitmap_get(bitmap, i) :
          result' = [op |-> "get", index |-> i, value |-> v, panicked |-> FALSE,
                     oob |-> get_in_bounds(bitmap, i) /\ ~InBuffer(bitmap, i)]
    /\ UNCHANGED <<bitmap, input, origin, extends, parts, arrayVars>>

\* bitmap[index]
Index ==
    /\ Ready
    /\ \E i \in Indexes :
       \E v \in Bitmap_index(bitmap, i) :
          result' = [op |-> "index", index |-> i, value |-> v,
                     panicked |-> index_panics(bitmap, i),
                     oob |-> ~index_panics(bitmap, i) /\ ~InBuffer(bitmap, i)]
    /\ UNCHANGED <<bitmap, input, origin, extends, parts, arrayVars>>

\* (&bitmap).into_iter().collect::<Vec<_>>()
IntoIterRef ==
    /\ Ready
    /\ result' = [op |-> "iter_ref", index |-> 0, value |-> Bitmap_into_iter(bitmap),
                  panicked |-> FALSE, oob |-> FALSE]
    /\ UNCHANGED <<bitmap, input, origin, extends, parts, arrayVars>>

\* bitmap.into_iter().collect::<Vec<_>>(): the bitmap is consumed.
IntoIter ==
    /\ Ready
    /\ result' = [op |-> "iter", index |-> 0, value |-> Bitmap_into_iter(bitmap),
                  panicked |-> FALSE, oob |-> FALSE]
    /\ UNCHANGED <<bitmap, input, origin, extends, parts, arrayVars>>

\* The caller drops the value an inspecting operation returned; the bitmap
\* into_iter consumed is gone for good.
Discard ==
    /\ result.op \in {"get", "index", "iter_ref"}
    /\ result' = NoResult
    /\ UNCHANGED <<bitmap, input, origin, extends, parts, arrayVars>>

Init ==
    /\ BitmapInit
    /\ array = 0 /\ items = <<>> /\ calls = 0 /\ answer = 0

\* Building and growing a bitmap, and reading it back.
Next ==
    \/ FromIter
    \/ Extend
    \/ IntoIterRef
    \/ IntoIter
    \/ Discard

Spec == Init /\ [][Next]_vars

\* Forming a bitmap from raw parts or from a sequence, and inspecting it.
NextAccess ==
    \/ FromIter
    \/ FromRawParts
    \/ Get
    \/ Index
    \/ IntoIterRef
    \/ Discard

SpecAccess == Init /\ [][NextAccess]_vars

(***************************************************************************)
(* The arrays as a state machine.                                          *)
(***************************************************************************)
\* FixedSizePrimitiveArray<u8>
U8 == PrimT(FALSE, 0)

\* The columns of FooArray: a: u32, b: Option<()>, c: (),
\* d: Option<[u128; 2]>, e: bool, f: &[u8], g: String.
FooFields ==
    [a |-> PrimT(FALSE, 0), b |-> UnitT(TRUE), c |-> UnitT(FALSE),
     d |-> PrimT(TRUE, <<0, 0>>), e |-> BoolT(FALSE),
     f |-> ListT(FALSE, U8), g |-> ListT(FALSE, U8)]

\* Foo::default()
FooDefault ==
    [a |-> 0, b |-> None, c |-> <<>>, d |-> None, e |-> FALSE, f |-> <<>>, g |-> <<>>]

\* The array types under test, by name.
TypeNames == {"list", "nullable_list", "nullable_u8", "struct", "nullable_struct"}

TypeOf(name) ==
    CASE name = "list" -> ListT(FALSE, U8)
      [] name = "nullable_list" -> ListT(TRUE, U8)
      [] name = "nullable_u8" -> PrimT(TRUE, 0)
      [] name = "struct" -> StructT(FALSE, FooFields, FooDefault)
      [] name = "nullable_struct" -> StructT(TRUE, FooFields, FooDefault)
      [] name = "list2" -> ListT(FALSE, ListT(FALSE, U8))
      [] name = "list3" -> ListT(FALSE, ListT(FALSE, ListT(FALSE, U8)))
      [] name = "nullable_list2" -> ListT(TRUE, ListT(TRUE, U8))
      [] name = "nullable_list3" -> ListT(TRUE, ListT(TRUE, ListT(TRUE, U8)))

\* The rows of the list test: [1], [2, 3], [4], and the empty row.
Rows == {<<>>, <<1>>, <<2, 3>>, <<4>>}

\* The four records of the struct test, and a fifth that shares field
\* values with them in another combination.
Foo1 == [a |-> 1, b |-> None, c |-> <<>>, d |-> Some(<<1, 2>>), e |-> FALSE,
         f |-> <<1>>, g |-> <<97>>]
Foo2 == [a |-> 2, b |-> Some(<<>>), c |-> <<>>, d |-> Some(<<3, 4>>), e |-> TRUE,
         f |-> <<2, 3>>, g |-> <<115>>]
Foo3 == [a |-> 3, b |-> None, c |-> <<>>, d |-> None, e |-> TRUE,
         f |-> <<4>>, g |-> <<100>>]
Foo4 == [a |-> 4, b |-> None, c |-> <<>>, d |-> None, e |-> TRUE,
         f |-> <<>>, g |-> <<102>>]
Foo5 == [a |-> 1, b |-> Some(<<>>), c |-> <<>>, d |-> None, e |-> FALSE,
         f |-> <<2, 3>>, g |-> <<>>]
FooRecords == {Foo1, Foo2, Foo3, Foo4, Foo5}

\* The array types of the nested list tests, by name: lists of lists and
\* lists of lists of lists of u8, non-nullable and nullable at every level.
NestedTypeNames == {"list2", "list3", "nullable_list2", "nullable_list3"}

\* The rows of the two-level test, [[1, 2, 3], [1, 2, 3]] and [[4, 5, 6]],
\* the empty row and the row of one empty row.
Rows2 == {<<>>, << <<>> >>, << <<1, 2, 3>>, <<1, 2, 3>> >>, << <<4, 5, 6>> >>}

\* The row of the three-level test: [[[1, 2, 3], [1, 2, 3]], [[4, 5, 6]]].
Row3 == << << <<1, 2, 3>>, <<1, 2, 3>> >>, << <<4, 5, 6>> >> >>

\* The rows of the nullable tests: [None, Some([1, 2, 3]), Some([1, 2, 3])]
\* and [None, Some([4, 5, 6])], the empty row and the row of one None.
NullableRows2 ==
    {<<>>, <<None>>,
     <<None, Some(<<1, 2, 3>>), Some(<<1, 2, 3>>)>>,
     <<None, Some(<<4, 5, 6>>)>>}

\* The present row of the three-level nullable test.
NullableRow3 ==
    <<None,
      Some(<<None, Some(<<1, 2, 3>>), Some(<<1, 2, 3>>)>>),
      Some(<<None, Some(<<4, 5, 6>>)>>)>>

\* The items an array of the named type is built from.
ItemsOf(name) ==
    CASE name = "list" -> Rows
      [] name = "nullable_list" -> {None} \cup {Some(r) : r \in Rows}
      [] name = "nullable_u8" -> {None, Some(2), Some(3)}
      [] name = "struct" -> FooRecords
      [] name = "nullable_struct" -> {None, Some(Foo1), Some(Foo2)}
      [] name = "list2" -> Rows2
      [] name = "list3" -> {<<>>} \cup {<<r>> : r \in Rows2} \cup {Row3}
      [] name = "nullable_list2" -> {None} \cup {Some(r) : r \in NullableRows2}
      [] name = "nullable_list3" -> {None, Some(<<>>), Some(NullableRow3)}

ItemSeqs(name, n) == UNION {[1..k -> ItemsOf(name)] : k \in 0..n}

\* items.into_iter().collect::<A>() for the array type A.
Collect(ty, its) ==
    CASE ty.kind = "list" -> VariableSizeListArray_from_iter(ty, its)
      [] ty.kind = "struct" -> StructArray_from_iter(ty, its)
      [] OTHER -> Array_from_iter(ty, its)

\* array.extend(items); of a struct array, its storage is extended.
Grow(arr, its) ==
    CASE arr.kind = "list" -> VariableSizeListArray_extend(arr, its)
      [] OTHER -> Array_extend(arr, its)

NoAnswer == [op |-> "none", index |-> 0, value |-> <<>>]

ArrayInit ==
    /\ BitmapInit
    /\ calls \in [ty : TypeNames, origin : {"default"}, grown : {FALSE}]
    /\ array = Array_default(TypeOf(calls.ty))
    /\ items = <<>>
    /\ answer = NoAnswer

\* array = its.into_iter().collect()
ArrayFromIter ==
    /\ answer.op = "none"
    /\ calls.origin = "default" /\ ~calls.grown
    /\ \E its \in ItemSeqs(calls.ty, MaxItems) :
          /\ array' = Collect(TypeOf(calls.ty), its)
          /\ items' = its
    /\ calls' = [calls EXCEPT !.origin = "from_iter"]
    /\ UNCHANGED <<answer, bitmapVars>>

\* array.extend(its)
ArrayExtend ==
    /\ answer.op = "none"
    /\ \E its \in ItemSeqs(calls.ty, MaxItems - Len(items)) :
          /\ array' = Grow(array, its)
          /\ items' = items \o its
    /\ calls' = [calls EXCEPT !.grown = TRUE]
    /\ UNCHANGED <<answer, bitmapVars>>

\* The indexes is_valid and is_null are called with.
ArrayIndexes == 0..(MaxItems + 1)

\* array.is_valid(index)
IsValid ==
    /\ answer.op = "none"
    /\ \E i \in ArrayIndexes :
       \E v \in is_valid(array, i) :
          answer' = [op |-> "is_valid", index |-> i, value |-> v]
    /\ UNCHANGED <<array, items, calls, bitmapVars>>

\* array.is_null(index)
IsNull ==
    /\ answer.op = "none"
    /\ \E i \in ArrayIndexes :
       \E v \in is_null(array, i) :
          answer' = [op |-> "is_null", index |-> i, value |-> v]
    /\ UNCHANGED <<array, items, calls, bitmapVars>>

\* The caller drops the returned Option<bool>.
ArrayDiscard ==
    /\ answer.op # "none"
    /\ answer' = NoAnswer
    /\ UNCHANGED <<array, items, calls, bitmapVars>>

\* The nested list arrays start empty, like the others.
NestedInit ==
    /\ BitmapInit
    /\ calls \in [ty : NestedTypeNames, origin : {"default"}, grown : {FALSE}]
    /\ array = Array_default(TypeOf(calls.ty))
    /\ items = <<>>
    /\ answer = NoAnswer

\* Building and growing an array.
NextArray ==
    \/ ArrayFromIter
    \/ ArrayExtend

SpecArray == ArrayInit /\ [][NextArray]_vars

\* Building and growing a nested list array.
SpecNested == NestedInit /\ [][NextArray]_vars

\* Building an array and asking which of its elements are present.
NextValidity ==
    \/ ArrayFromIter
    \/ ArrayExtend
    \/ IsValid
    \/ IsNull
    \/ ArrayDiscard

SpecValidity == ArrayInit /\ [][NextValidity]_vars

(***************************************************************************)
(* Properties of the bitmap.                                               *)
(***************************************************************************)
\* Bit p (0-based) of a byte buffer, least-significant bit first within a
\* byte.
BufferBit(buffer, p) == BitOf(buffer[(p \div ByteBits) + 1], p % ByteBits)

\* C1: a bitmap built by from_iter from any boolean sequence xs (the empty
\* one and lengths not divisible by 8 included) has len() = Len(xs), and
\* iterating it, by reference or by value, yields exactly xs in order.
C1_RoundTrip ==
    (origin = "from_iter" /\ extends.count = 0) =>
        /\ Bitmap_len(bitmap) = Len(input)
        /\ result.op \in {"iter", "iter_ref"} => result.value = input

\* C1 witness: a sequence of 9 booleans, both values in it, its last one
\* true, was collected and iterated by value.
C1_Witness ==
    /\ origin = "from_iter" /\ extends.count = 0
    /\ result.op = "iter"
    /\ Len(input) = ByteBits + 1
    /\ input[Len(input)] /\ ~input[1] /\ input[2]
    /\ result.value = input

\* C2: from_iter(xs) followed by any number of extend calls equals, in
\* buffer bytes, bits and offset, from_iter of the concatenation of all the
\* inputs.
C2_ExtendEqualsFromIter ==
    origin = "from_iter" => bitmap = Bitmap_from_iter(input)

\* C2 witness: after two extend calls, the last one of 2 items into a byte
\* that had 4 free bits, the bitmap holds 6 bits, the last one set.
C2_Witness ==
    /\ origin = "from_iter"
    /\ extends.count = 2 /\ extends.last = 2
    /\ bitmap.bits = 6
    /\ input[6] /\ input[5] /\ ~input[4]
    /\ bitmap = Bitmap_from_iter(input)

\* C3: get(index) returns None exactly when index >= len(); otherwise it
\* returns Some of the bit at byte (offset + index) / 8, position
\* (offset + index) % 8, least-significant bit first; and on a bitmap with
\* offset + bits <= 8 * buffer length it reads no byte outside the buffer.
C3_Get ==
    result.op = "get" =>
        /\ result.value = None <=> result.index >= Bitmap_len(bitmap)
        /\ result.index < Bitmap_len(bitmap) =>
              /\ (bitmap.offset + result.index) \div ByteBits < Len(bitmap.buffer)
              /\ result.value = Some(BufferBit(bitmap.buffer, bitmap.offset + result.index))
        /\ BitmapInv(bitmap) => ~result.oob

\* C3 witness: get returned Some(true) for a positive index of a bitmap
\* formed from raw parts with an offset of a byte or more.
C3_Witness ==
    /\ result.op = "get"
    /\ origin = "raw"
    /\ bitmap.offset > ByteBits
    /\ result.index > 0
    /\ result.value = Some(TRUE)
    /\ BitmapInv(bitmap)

\* C4: bitmap[index] panics if and only if index >= len(); for index <
\* len() it returns the boolean get(index) returns; the bitmap is unchanged
\* either way.
C4_Index ==
    [][(result.op = "none" /\ result'.op = "index") =>
          /\ result'.panicked <=> result'.index >= Bitmap_len(bitmap)
          /\ ~result'.panicked => result'.value \in Bitmap_get(bitmap, result'.index)
          /\ ~result'.panicked => result'.value # None
          /\ bitmap' = bitmap]_vars

\* C4 witness: the indexing operator panicked at index = len() of a
\* non-empty bitmap.
C4_Witness ==
    /\ result.op = "index"
    /\ result.panicked
    /\ result.index = Bitmap_len(bitmap)
    /\ Bitmap_len(bitmap) > 0

\* C5: a bitmap formed by from_raw_parts(buffer, bits, offset) with
\* offset + bits <= 8 * buffer length, for any offset, has len() = bits and
\* leading_bits() = offset, and its iteration yields exactly bits booleans,
\* the i-th being bit offset + i of the buffer least-significant bit first
\* and equal to get(i); byte 0b10100000 with bits 3 and offset 4 gives
\* [false, true, false].
C5_RawParts ==
    origin = "raw" =>
        /\ Bitmap_len(bitmap) = parts.bits
        /\ leading_bits(bitmap) = parts.offset
        /\ result.op = "iter_ref" =>
              /\ Len(result.value) = parts.bits
              /\ \A i \in 0..(parts.bits - 1) :
                    /\ result.value[i + 1] = BufferBit(parts.buffer, parts.offset + i)
                    /\ Bitmap_get(bitmap, i) = {Some(result.value[i + 1])}
              /\ (parts = [buffer |-> <<160>>, bits |-> 3, offset |-> 4])
                    => result.value = <<FALSE, TRUE, FALSE>>

\* C5 witness: a bitmap of 3 bits formed at an offset of more than a byte
\* was iterated and yielded a true value.
C5_Witness ==
    /\ origin = "raw"
    /\ parts.offset > ByteBits
    /\ parts.bits = 3
    /\ result.op = "iter_ref"
    /\ result.value = <<FALSE, TRUE, FALSE>>

(***************************************************************************)
(* Properties of the arrays.                                               *)
(***************************************************************************)
\* Whether the array under construction is nullable, is a list, is a struct.
Nullable == TypeOf(calls.ty).nullable
IsList == TypeOf(calls.ty).kind = "list"
IsStruct == TypeOf(calls.ty).kind = "struct"

\* Whether item i (1-based) handed to the array was present.
Given(i) == IF Nullable THEN is_some(items[i]) ELSE TRUE

\* The row item i stands for: its elements, none for an absent row.
RowOf(i) == IF ~Given(i) THEN <<>> ELSE IF Nullable THEN items[i][1] ELSE items[i]

RECURSIVE RowsUpTo(_)
\* The elements of the rows 1..n handed to the array, concatenated in order.
RowsUpTo(n) == IF n = 0 THEN <<>> ELSE RowsUpTo(n - 1) \o RowOf(n)

\* C6: for any rows given to a list array, rows of length 0 and absent rows
\* included, offsets has length rows + 1, starts at 0, is non-decreasing,
\* and offsets[i+1] - offsets[i] is the element count of row i (0 for an
\* absent row); the child data is the concatenation of the present rows in
\* order, so row i is data[offsets[i] .. offsets[i+1]].
C6_Offsets ==
    IsList =>
        LET n == Len(items)
            offsets == array.offsets
            data == array.data.values
        IN  /\ Len(offsets) = n + 1
            /\ offsets[1] = 0
            /\ \A i \in 1..n :
                  /\ offsets[i] <= offsets[i + 1]
                  /\ offsets[i + 1] - offsets[i] = Len(RowOf(i))
                  /\ offsets[i + 1] <= Len(data)
                  /\ SubSeq(data, offsets[i] + 1, offsets[i + 1]) = RowOf(i)
            /\ data = RowsUpTo(n)
            /\ (~Nullable /\ items = << <<1>>, <<2, 3>>, <<4>> >>) =>
                  offsets = <<0, 1, 3, 4>> /\ data = <<1, 2, 3, 4>>

\* C6 witness: a list array collected from a row of two elements, an absent
\* row, an empty row and a row of one element.
C6_Witness ==
    /\ calls.ty = "nullable_list" /\ calls.origin = "from_iter" /\ ~calls.grown
    /\ items = <<Some(<<2, 3>>), None, Some(<<>>), Some(<<4>>)>>
    /\ array.offsets = <<0, 2, 2, 2, 3>>
    /\ array.data.values = <<2, 3, 4>>

\* The items with item k replaced by it.
ItemsWith(k, it) == [items EXCEPT ![k] = it]

\* C7: in a nullable list array every None row appends no child element,
\* repeats the previous offset and has its presence bit cleared; every Some
\* row, Some(empty) included, has its presence bit set; a null row and a
\* present empty row give the same offsets and child data and differ only
\* in that presence bit; len() counts the null rows.
C7_NullRows ==
    (IsList /\ Nullable) =>
        LET n == Len(items)
            ty == TypeOf(calls.ty)
        IN  /\ VariableSizeListArray_len(array) = n
            /\ Array_len(array.data) = Len(RowsUpTo(n))
            /\ \A i \in 1..n :
                  /\ items[i] = None =>
                        /\ array.offsets[i + 1] = array.offsets[i]
                        /\ is_valid(array, i - 1) = {Some(FALSE)}
                  /\ items[i] # None => is_valid(array, i - 1) = {Some(TRUE)}
                  /\ items[i] \in {None, Some(<<>>)} =>
                        LET other == IF items[i] = None THEN Some(<<>>) ELSE None
                            twin == VariableSizeListArray_from_iter(ty, ItemsWith(i, other))
                        IN  /\ twin.offsets = array.offsets
                            /\ twin.data = array.data
                            /\ \A j \in 0..(n - 1) :
                                  (is_valid(twin, j) = is_valid(array, j)) <=> (j # i - 1)
            /\ items = <<Some(<<1>>), None, Some(<<2, 3>>), Some(<<4>>)>> =>
                  array.offsets = <<0, 1, 1, 3, 4>> /\ array.data.values = <<1, 2, 3, 4>>

\* C7 witness: the nullable list array of the test, collected from
\* [Some([1]), None, Some([2, 3]), Some([4])].
C7_Witness ==
    /\ calls.ty = "nullable_list" /\ calls.origin = "from_iter" /\ ~calls.grown
    /\ items = <<Some(<<1>>), None, Some(<<2, 3>>), Some(<<4>>)>>
    /\ array.offsets = <<0, 1, 1, 3, 4>>
    /\ is_null(array, 1) = {Some(TRUE)}

\* The record item i stands for: Foo::default() for an absent one.
RecordOf(i) ==
    IF ~Given(i) THEN FooDefault ELSE IF Nullable THEN items[i][1] ELSE items[i]

\* C8: for any n records given to a struct array every field column has
\* length n, and element j of field f's column is field f of record j,
\* whatever the other fields hold: the column is the one built from that
\* field's values alone.  The four records of the test give column f the
\* offsets [0, 1, 3, 4, 4].
C8_StructColumns ==
    IsStruct =>
        LET n == Len(items)
            ty == TypeOf(calls.ty)
        IN  /\ \A f \in DOMAIN ty.fields :
                  /\ Array_len(array.columns[f]) = n
                  /\ \A j \in 1..n : Array_get(array.columns[f], j - 1) = RecordOf(j)[f]
                  /\ array.columns[f] =
                        Array_from_iter(ty.fields[f], [j \in 1..n |-> RecordOf(j)[f]])
            /\ (~Nullable /\ items = <<Foo1, Foo2, Foo3, Foo4>>) =>
                  /\ array.columns.f.offsets = <<0, 1, 3, 4, 4>>
                  /\ array.columns.f.data.values = <<1, 2, 3, 4>>
                  /\ array.columns.a.values = <<1, 2, 3, 4>>
                  /\ array.columns.g.offsets = <<0, 1, 2, 3, 4>>
                  /\ array.columns.g.data.values = <<97, 115, 100, 102>>

\* C8 witness: the struct array of the test, collected from its four
\* records.
C8_Witness ==
    /\ calls.ty = "struct" /\ calls.origin = "from_iter" /\ ~calls.grown
    /\ items = <<Foo1, Foo2, Foo3, Foo4>>
    /\ array.columns.f.offsets = <<0, 1, 3, 4, 4>>
    /\ Array_get(array.columns.d, 1) = Some(<<3, 4>>)

\* C9: is_valid(i) and is_null(i) return None for every i >= n; for i < n
\* both return Some, is_null the negation of is_valid, and is_valid true
\* exactly when input element i was present (always, for non-nullable
\* storage).  A nullable struct array built from [None, Some(r)] has len 2,
\* is_null(0) = Some(true), is_valid(1) = Some(true), is_valid(2) = None.
C9_Validity ==
    /\ answer.op \in {"is_valid", "is_null"} =>
          LET i == answer.index
          IN  /\ i >= Len(items) => answer.value = None
              /\ i < Len(items) =>
                    answer.value = Some(IF answer.op = "is_valid"
                                        THEN Given(i + 1) ELSE ~Given(i + 1))
    /\ (calls.ty = "nullable_struct" /\ items = <<None, Some(Foo1)>>) =>
          /\ StructArray_len(array) = 2
          /\ is_null(array, 0) = {Some(TRUE)}
          /\ is_valid(array, 1) = {Some(TRUE)}
          /\ is_valid(array, 2) = {None}

\* C9 witness: is_null answered Some(true) for the absent first record of
\* the nullable struct array built from [None, Some(r)].
C9_Witness ==
    /\ calls.ty = "nullable_struct" /\ calls.origin = "from_iter"
    /\ items = <<None, Some(Foo1)>>
    /\ answer = [op |-> "is_null", index |-> 0, value |-> Some(TRUE)]

\* The length of the values nullable storage wraps: the values buffer of a
\* primitive array, the offsets buffer of a list array, the columns of a
\* struct array.
ValuesLen(arr) ==
    CASE arr.kind = "prim" -> Len(arr.values)
      [] arr.kind = "list" -> Len(arr.offsets)
      [] arr.kind = "struct" ->
            Array_len(arr.columns[CHOOSE f \in DOMAIN arr.columns : TRUE])

\* C10 as stated: in nullable storage presence.len() = values.len() = the
\* number of elements supplied so far, in every reachable state.
C10_AsStated ==
    Nullable =>
        /\ Bitmap_len(bitmap_ref(array)) = Len(items)
        /\ ValuesLen(array) = Bitmap_len(bitmap_ref(array))

\* C10, amended: in nullable storage presence.len() is the number of
\* elements supplied so far, after bulk construction and after any appends;
\* the values of a primitive array and every column of a struct array have
\* that length, and the offsets of a list array have one entry more.
C10_PresenceLength ==
    Nullable =>
        /\ Bitmap_len(bitmap_ref(array)) = Len(items)
        /\ array.kind = "prim" => Len(array.values) = Len(items)
        /\ array.kind = "struct" =>
              \A f \in DOMAIN array.columns : Array_len(array.columns[f]) = Len(items)
        /\ array.kind = "list" => Len(array.offsets) = Len(items) + 1

\* C10 witness: a nullable list array collected and then extended, four
\* rows in all, the last one absent.
C10_Witness ==
    /\ calls.ty = "nullable_list" /\ calls.origin = "from_iter" /\ calls.grown
    /\ Len(items) = 4 /\ items[4] = None /\ items[1] = Some(<<2, 3>>)
    /\ Bitmap_len(bitmap_ref(array)) = 4
    /\ Len(array.offsets) = 5

\* C11: appending is bulk construction over the concatenation.  Whatever
\* rows a list array or a struct array was built from and then extended by,
\* its offsets, flattened data, presence bits and field columns are those of
\* the array collected from all the rows at once; the offsets of appended
\* rows go on from the last offset, and FooArray's per-record Extend gives
\* the columns its unzipping FromIterator gives.
C11_AppendEqualsBulk ==
    ((IsList \/ IsStruct) /\ calls.grown) =>
        LET ty == TypeOf(calls.ty)
            bulk == Collect(ty, items)
        IN  /\ array = bulk
            /\ IsList =>
                  /\ array.offsets = bulk.offsets
                  /\ array.data = bulk.data
                  /\ array.validity = bulk.validity
                  /\ \A i \in 1..Len(items) : array.offsets[i] <= array.offsets[i + 1]
            /\ IsStruct =>
                  /\ array.columns = bulk.columns
                  /\ array.validity = bulk.validity
            /\ calls.ty = "struct" =>
                  FooArray_extend(Array_default(ty).columns, items)
                      = FooArray_from_iter(ty.fields, items)

\* C11 witness: a struct array collected and then extended, holding the four
\* records of the test, its column f with the offsets [0, 1, 3, 4, 4].
C11_Witness ==
    /\ calls.ty = "struct" /\ calls.origin = "from_iter" /\ calls.grown
    /\ items = <<Foo1, Foo2, Foo3, Foo4>>
    /\ array.columns.f.offsets = <<0, 1, 3, 4, 4>>

\* C12: structures built from zero rows are empty and safe to query.  The
\* Default bitmap and the bitmap collected from the empty sequence have
\* len 0, no byte, offset 0, leading_bits 0 and trailing_bits 0; a list
\* array of zero rows has length 0 and the offsets [0]; a struct array of
\* zero records has length 0; get, is_valid and is_null return None, and
\* never fail, at every index.
C12_Empty ==
    /\ \A bm \in {bitmap, Bitmap_from_iter(<<>>)} :
          /\ Bitmap_len(bm) = 0
          /\ bm.buffer = <<>>
          /\ bm.offset = 0
          /\ leading_bits(bm) = 0
          /\ trailing_bits(bm) = 0
          /\ \A i \in Indexes :
                /\ Bitmap_get(bm, i) = {None}
                /\ ~get_in_bounds(bm, i)
    /\ items = <<>> =>
          /\ Array_len(array) = 0
          /\ IsList => VariableSizeListArray_len(array) = 0 /\ array.offsets = <<0>>
          /\ IsStruct => StructArray_len(array) = 0
          /\ \A i \in ArrayIndexes :
                is_valid(array, i) = {None} /\ is_null(array, i) = {None}
          /\ answer.op # "none" => answer.value = None

\* C12 witness: is_valid answered None at index 0 of a nullable list array
\* collected from no row at all.
C12_Witness ==
    /\ calls.ty = "nullable_list" /\ calls.origin = "from_iter"
    /\ items = <<>>
    /\ array.offsets = <<0>>
    /\ answer = [op |-> "is_valid", index |-> 0, value |-> None]

(***************************************************************************)
(* The conversion to arrow_buffer::BooleanBuffer (bitmap/mod.rs, mod       *)
(* arrow), and extending a bitmap formed from raw parts.                   *)
(***************************************************************************)
\* BooleanBuffer::new(buffer, offset, len): len bits of the buffer, the
\* first of them bit offset of the buffer.
BooleanBuffer_new(buffer, offset, len) ==
    [buffer |-> buffer, offset |-> offset, len |-> len]

\* BooleanBuffer::value(i): bit offset + i of the buffer.
BooleanBuffer_value(bb, i) == BufferBit(bb.buffer, bb.offset + i)

\* From<Bitmap> for BooleanBuffer
BooleanBuffer_from(bm) == BooleanBuffer_new(bm.buffer, 0, bm.bits)

\* BooleanBuffer::from(bitmap): the bitmap is consumed.
IntoArrow ==
    /\ Ready
    /\ result' = [op |-> "arrow", index |-> 0, value |-> BooleanBuffer_from(bitmap),
                  panicked |-> FALSE, oob |-> FALSE]
    /\ UNCHANGED <<bitmap, input, origin, extends, parts, arrayVars>>

\* bitmap.extend(ys) on a bitmap formed by from_raw_parts; input collects
\* the items appended to it.
ExtendRaw ==
    /\ Ready
    /\ origin = "raw"
    /\ extends.count < MaxExtends
    /\ ~extend_panics(bitmap)
    /\ \E ys \in BoolSeqs(MaxRawExtend - Len(input)) :
          /\ bitmap' = Bitmap_extend(bitmap, ys)
          /\ input' = input \o ys
          /\ extends' = [count |-> extends.count + 1, last |-> Len(ys)]
    /\ UNCHANGED <<origin, parts, result, arrayVars>>

\* Forming a bitmap in any way, growing it, and handing it to arrow.
NextRaw ==
    \/ FromIter
    \/ FromRawParts
    \/ Extend
    \/ ExtendRaw
    \/ IntoArrow

SpecRaw == Init /\ [][NextRaw]_vars

\* C13: converting a bitmap into the arrow BooleanBuffer is lossless for
\* every bitmap, one with a non-zero bit offset included: the result has
\* the same bytes and the same logical length, and its value i is the
\* bitmap's get(i) for every i < len.
C13_ArrowLossless ==
    result.op = "arrow" =>
        LET bb == result.value
        IN  /\ bb.buffer = bitmap.buffer
            /\ bb.len = Bitmap_len(bitmap)
            /\ \A i \in 0..(Bitmap_len(bitmap) - 1) :
                  Bitmap_get(bitmap, i) = {Some(BooleanBuffer_value(bb, i))}

\* C13, what the conversion keeps: the bytes and the logical length of every
\* bitmap, and the values of a bitmap whose offset is 0.
C13_ArrowOffsetZero ==
    result.op = "arrow" =>
        LET bb == result.value
        IN  /\ bb.buffer = bitmap.buffer
            /\ bb.len = Bitmap_len(bitmap)
            /\ bb.offset = 0
            /\ bitmap.offset = 0 =>
                  \A i \in 0..(Bitmap_len(bitmap) - 1) :
                      Bitmap_get(bitmap, i) = {Some(BooleanBuffer_value(bb, i))}

\* C13 witness: the bitmap of the byte 0b10100000 with 3 bits at offset 4,
\* which reads false, true, false, converted to a BooleanBuffer whose value 1
\* is false.
C13_Witness ==
    /\ result.op = "arrow"
    /\ origin = "raw" /\ extends.count = 0
    /\ parts = [buffer |-> <<160>>, bits |-> 3, offset |-> 4]
    /\ Bitmap_into_iter(bitmap) = <<FALSE, TRUE, FALSE>>
    /\ ~BooleanBuffer_value(result.value, 1)

(***************************************************************************)
(* Properties of nested list arrays.                                       *)
(***************************************************************************)
\* The rows [None, Some([None, Some([1, 2, 3]), Some([1, 2, 3])])] of a
\* two-level nullable list array.
TwoLevelRows == <<None, Some(<<None, Some(<<1, 2, 3>>), Some(<<1, 2, 3>>)>>)>>

\* The input of the three-level nullable test.
ThreeLevelRows == <<None, Some(NullableRow3)>>

\* The presence bits of a nullable array, in order.
PresenceBits(arr) == Bitmap_into_iter(bitmap_ref(arr))

\* C14 as stated: the two-level nullable list array built from
\* [None, Some([None, Some([1,2,3]), Some([1,2,3])])] has the offsets
\* [0,0,3] at the outer level and [0,0,3,6,6,9] at the innermost level,
\* its presence bits cleared exactly at the None positions of each level.
C14_AsStated ==
    (calls.ty = "nullable_list2" /\ items = TwoLevelRows) =>
        /\ array.offsets = <<0, 0, 3>>
        /\ array.data.offsets = <<0, 0, 3, 6, 6, 9>>
        /\ PresenceBits(array) = <<FALSE, TRUE>>
        /\ PresenceBits(array.data) = <<FALSE, TRUE, TRUE>>

\* C14, amended: the two-level nullable list array built from
\* [None, Some([None, Some([1,2,3]), Some([1,2,3])])] has the offsets
\* [0,0,3] at the outer level and [0,0,3,6] at the inner one over the data
\* [1,2,3,1,2,3]; the offsets [0,0,3], [0,0,3,5] and [0,0,3,6,6,9] are those
\* of the three-level array of the test.  At each level the presence bits
\* are cleared exactly at the None positions, and however the rows were
\* handed over the result is the array collected from them.
C14_NestedNullable ==
    /\ (calls.ty = "nullable_list2" /\ items = TwoLevelRows) =>
          /\ array.offsets = <<0, 0, 3>>
          /\ array.data.offsets = <<0, 0, 3, 6>>
          /\ array.data.data.values = <<1, 2, 3, 1, 2, 3>>
          /\ PresenceBits(array) = <<FALSE, TRUE>>
          /\ PresenceBits(array.data) = <<FALSE, TRUE, TRUE>>
          /\ array = Collect(TypeOf(calls.ty), items)
    /\ (calls.ty = "nullable_list3" /\ items = ThreeLevelRows) =>
          /\ array.offsets = <<0, 0, 3>>
          /\ array.data.offsets = <<0, 0, 3, 5>>
          /\ array.data.data.offsets = <<0, 0, 3, 6, 6, 9>>
          /\ array.data.data.data.values = <<1, 2, 3, 1, 2, 3, 4, 5, 6>>
          /\ PresenceBits(array) = <<FALSE, TRUE>>
          /\ PresenceBits(array.data) = <<FALSE, TRUE, TRUE>>
          /\ PresenceBits(array.data.data) = <<FALSE, TRUE, TRUE, FALSE, TRUE>>
          /\ array = Collect(TypeOf(calls.ty), items)

\* C14 witness: the two-level nullable list array collected from the two
\* rows, its inner offsets [0, 0, 3, 6].
C14_Witness ==
    /\ calls.ty = "nullable_list2" /\ calls.origin = "from_iter" /\ ~calls.grown
    /\ items = TwoLevelRows
    /\ array.data.offsets = <<0, 0, 3, 6>>
    /\ is_null(array.data, 0) = {Some(TRUE)}

\* The child rows item it of a list array of type ty stands for: none for an
\* absent row.
RowIn(ty, it) == IF ~ty.nullable THEN it ELSE IF is_some(it) THEN it[1] ELSE <<>>

RECURSIVE FlattenRows(_, _)
\* The elements of the immediate child array of a list array built from its:
\* the child rows of the present rows, in order.
FlattenRows(ty, its) ==
    IF its = <<>> THEN <<>>
    ELSE RowIn(ty, its[1]) \o FlattenRows(ty, Skip(1, its))

RECURSIVE LevelByLevel(_, _, _)
\* Whether arr is what the items its give, one nesting level after the
\* other: the offsets of a level count the child rows of each of its rows
\* (0 for a None row), its presence bits tell the None rows, and its child
\* array is what the child rows of its present rows give; the innermost
\* values are the leaf values.
LevelByLevel(arr, ty, its) ==
    IF ty.kind # "list" THEN arr.values = its
    ELSE /\ Len(arr.offsets) = Len(its) + 1
         /\ arr.offsets[1] = 0
         /\ \A i \in 1..Len(its) :
               /\ arr.offsets[i + 1] - arr.offsets[i] = Len(RowIn(ty, its[i]))
               /\ ty.nullable => Bitmap_get(arr.validity, i - 1) = {Some(is_some(its[i]))}
         /\ Array_len(arr.data) = Len(FlattenRows(ty, its))
         /\ LevelByLevel(arr.data, ty.child, FlattenRows(ty, its))

\* C19: nested list arrays compose level by level.  At each nesting level
\* the offsets count elements of the immediate child array, a null row has
\* width 0 at its own level only, and the innermost data is the
\* concatenation of the present leaf values in input order;
\* [[[1,2,3],[1,2,3]],[[4,5,6]]] gives the offsets [0,2,3] and [0,3,6,9] over
\* the data [1,2,3,1,2,3,4,5,6], one more level above it the offsets [0,2],
\* and the three-level nullable test input [0,0,3], [0,0,3,5], [0,0,3,6,6,9].
C19_NestedLevels ==
    /\ LevelByLevel(array, TypeOf(calls.ty), items)
    /\ (calls.ty = "list2"
          /\ items = << << <<1, 2, 3>>, <<1, 2, 3>> >>, << <<4, 5, 6>> >> >>) =>
          /\ array.offsets = <<0, 2, 3>>
          /\ array.data.offsets = <<0, 3, 6, 9>>
          /\ array.data.data.values = <<1, 2, 3, 1, 2, 3, 4, 5, 6>>
    /\ (calls.ty = "list3" /\ items = <<Row3>>) =>
          /\ array.offsets = <<0, 2>>
          /\ array.data.offsets = <<0, 2, 3>>
          /\ array.data.data.offsets = <<0, 3, 6, 9>>
          /\ array.data.data.data.values = <<1, 2, 3, 1, 2, 3, 4, 5, 6>>
    /\ (calls.ty = "nullable_list3" /\ items = ThreeLevelRows) =>
          /\ array.offsets = <<0, 0, 3>>
          /\ array.data.offsets = <<0, 0, 3, 5>>
          /\ array.data.data.offsets = <<0, 0, 3, 6, 6, 9>>
          /\ array.data.data.data.values = <<1, 2, 3, 1, 2, 3, 4, 5, 6>>

\* C19 witness: the three-level nullable array of the test, collected from
\* its input, and grown by a null row.
C19_Witness ==
    /\ calls.ty = "nullable_list3" /\ calls.origin = "from_iter" /\ calls.grown
    /\ items = ThreeLevelRows \o <<None>>
    /\ array.offsets = <<0, 0, 3, 3>>
    /\ array.data.offsets = <<0, 0, 3, 5>>
    /\ array.data.data.offsets = <<0, 0, 3, 6, 6, 9>>

(***************************************************************************)
(* Properties of growing a bitmap.                                         *)
(***************************************************************************)
\* Whether the step is a call of extend.
ExtendStep == extends'.count = extends.count + 1

\* C15: the invariant offset + bits <= 8 * buffer length holds in every
\* state reached by Default, from_iter and any sequence of extend calls,
\* and extend keeps it on any bitmap that satisfied it beforehand; along
\* the way bits never decreases and offset never changes.
C15_InvariantKept ==
    [][/\ origin \in {"default", "from_iter"} => BitmapInv(bitmap)
       /\ origin' \in {"default", "from_iter"} =>
             /\ BitmapInv(bitmap')
             /\ bitmap'.bits >= bitmap.bits
             /\ bitmap'.offset = bitmap.offset
       /\ ExtendStep =>
             /\ BitmapInv(bitmap) => BitmapInv(bitmap')
             /\ bitmap'.bits = bitmap.bits + extends'.last
             /\ bitmap'.bits >= bitmap.bits
             /\ bitmap'.offset = bitmap.offset]_vars

\* C15 witness: a bitmap collected and extended twice, 9 bits in 2 bytes,
\* the last extend having crossed the byte boundary.
C15_Witness ==
    /\ origin = "from_iter" /\ extends = [count |-> 2, last |-> 3]
    /\ bitmap.bits = 9 /\ Len(bitmap.buffer) = 2 /\ bitmap.offset = 0
    /\ BitmapInv(bitmap)

\* C16: from_iter over n booleans gives ceil(n / 8) bytes, offset 0 and
\* bits n; element i is stored at byte i / 8, bit i % 8, least-significant
\* bit first, and the unused high bits of a last partial byte are zero.
\* [false,true,true,false,true] gives the single byte 22 and
\* [false,true,false,true,false,true] the single byte 42.
C16_BulkLayout ==
    (origin = "from_iter" /\ extends.count = 0) =>
        LET n == Len(input)
        IN  /\ Len(bitmap.buffer) = (n + ByteBits - 1) \div ByteBits
            /\ bitmap.offset = 0
            /\ bitmap.bits = n
            /\ \A i \in 0..(n - 1) :
                  BitOf(bitmap.buffer[(i \div ByteBits) + 1], i % ByteBits) = input[i + 1]
            /\ \A p \in n..(ByteBits * Len(bitmap.buffer) - 1) :
                  ~BitOf(bitmap.buffer[(p \div ByteBits) + 1], p % ByteBits)
            /\ \A b \in 1..Len(bitmap.buffer) : bitmap.buffer[b] \in 0..(2 ^ ByteBits - 1)
            /\ input = <<FALSE, TRUE, TRUE, FALSE, TRUE>> => bitmap.buffer = <<22>>
            /\ input = <<FALSE, TRUE, FALSE, TRUE, FALSE, TRUE>> => bitmap.buffer = <<42>>

\* C16 witness: the bitmap collected from [false,true,false,true,false,true],
\* 6 bits in the single byte 42.
C16_Witness ==
    /\ origin = "from_iter" /\ extends.count = 0
    /\ input = <<FALSE, TRUE, FALSE, TRUE, FALSE, TRUE>>
    /\ bitmap = [buffer |-> <<42>>, bits |-> 6, offset |-> 0]

\* C17: trailing_bits() is 8 - ((offset + bits) % 8) when (offset + bits) % 8
\* is not 0, and 0 otherwise; so for every bitmap it lies in 0..7 and
\* offset + bits + trailing_bits() is a multiple of 8, and for a bitmap
\* built by from_iter and extend that sum is 8 * buffer length: the
\* trailing bits are the unused high bits of the last byte.
C17_TrailingBits ==
    LET end == bitmap.offset + bitmap.bits
        trailing == trailing_bits(bitmap)
    IN  /\ end % 8 # 0 => trailing = 8 - (end % 8)
        /\ end % 8 = 0 => trailing = 0
        /\ trailing \in 0..7
        /\ (end + trailing) % 8 = 0
        /\ origin \in {"default", "from_iter"} =>
              /\ end + trailing = 8 * Len(bitmap.buffer)
              /\ \A p \in end..(end + trailing - 1) : ~BufferBit(bitmap.buffer, p)
        /\ (origin = "raw" /\ extends.count = 0
              /\ parts = [buffer |-> <<160>>, bits |-> 3, offset |-> 4]) =>
              trailing = 1 /\ leading_bits(bitmap) = 4

\* C17 witness: a bitmap of 3 bits extended to 5, with 3 trailing bits in its
\* single byte.
C17_Witness ==
    /\ origin = "from_iter" /\ extends = [count |-> 1, last |-> 2]
    /\ bitmap.bits = 5 /\ Len(bitmap.buffer) = 1
    /\ trailing_bits(bitmap) = 3

\* C18: extend never disturbs what was already stored.  For every i below
\* the old len(), get(i) after extend(ys) is get(i) before; every byte
\* wholly below the last touched byte is unchanged; in the partially
\* filled last byte only the bit positions at or above (offset + old bits)
\* % 8 may change; offset is unchanged; and when the bitmap ends on a byte
\* boundary no existing byte is modified at all.
C18_ExtendFrame ==
    [][ExtendStep =>
          LET end == bitmap.offset + bitmap.bits
              last_byte == (end \div ByteBits) + 1
          IN  /\ \A i \in 0..(bitmap.bits - 1) :
                    Bitmap_get(bitmap', i) = Bitmap_get(bitmap, i)
              /\ Len(bitmap'.buffer) >= Len(bitmap.buffer)
              /\ \A b \in 1..(last_byte - 1) : bitmap'.buffer[b] = bitmap.buffer[b]
              /\ end % ByteBits # 0 =>
                    \A k \in 0..((end % ByteBits) - 1) :
                        BitOf(bitmap'.buffer[last_byte], k) = BitOf(bitmap.buffer[last_byte], k)
              /\ bitmap'.offset = bitmap.offset
              /\ end % ByteBits = 0 =>
                    \A b \in 1..Len(bitmap.buffer) : bitmap'.buffer[b] = bitmap.buffer[b]]_vars

\* C18 witness: the bitmap collected from [true, false, true] and extended
\* by [true, true]: the byte 5 has become 29.
C18_Witness ==
    /\ origin = "from_iter" /\ extends = [count |-> 1, last |-> 2]
    /\ input = <<TRUE, FALSE, TRUE, TRUE, TRUE>>
    /\ bitmap = [buffer |-> <<29>>, bits |-> 5, offset |-> 0]

\* The bitmap from_raw_parts formed, before any extend.
Formed == from_raw_parts(parts.buffer, parts.bits, parts.offset)

\* C20: for any bitmap that satisfies offset + bits <= 8 * buffer length,
\* however it was formed (by from_raw_parts with a non-zero offset, with
\* non-zero padding bits above the logical end of its last touched byte, or
\* with bytes beyond that byte), extend(ys) gives a bitmap of length
\* old len + |ys| that iterates as the old sequence followed by ys:
\* get(old len + k) = Some(ys[k]) for every k < |ys|.
C20_ExtendAnyBitmap ==
    (origin = "raw" /\ extends.count > 0) =>
        /\ BitmapInv(Formed)
        /\ Bitmap_len(bitmap) = Bitmap_len(Formed) + Len(input)
        /\ Bitmap_into_iter(bitmap) = Bitmap_into_iter(Formed) \o input
        /\ \A k \in 0..(Len(input) - 1) :
              Bitmap_get(bitmap, Bitmap_len(Formed) + k) = {Some(input[k + 1])}

\* Whether every bit of the buffer from the logical end of the bitmap on is
\* zero and the buffer ends with the last touched byte.
CleanEnd(bm) ==
    /\ ByteBits * Len(bm.buffer) - (bm.offset + bm.bits) < ByteBits
    /\ \A p \in (bm.offset + bm.bits)..(ByteBits * Len(bm.buffer) - 1) :
          ~BufferBit(bm.buffer, p)

\* C20, what extend does keep: on a bitmap formed with any offset whose
\* buffer ends with the last touched byte and whose padding bits are zero,
\* extend(ys) appends ys; on any formed bitmap the length grows by |ys|.
C20_ExtendCleanBitmap ==
    (origin = "raw" /\ extends.count > 0) =>
        /\ Bitmap_len(bitmap) = Bitmap_len(Formed) + Len(input)
        /\ CleanEnd(Formed) =>
              /\ Bitmap_into_iter(bitmap) = Bitmap_into_iter(Formed) \o input
              /\ \A k \in 0..(Len(input) - 1) :
                    Bitmap_get(bitmap, Bitmap_len(Formed) + k) = {Some(input[k + 1])}

\* C20 witness: the bitmap formed from the byte 0b10100000 with 5 bits at
\* offset 0, extended by [false]: bit 5 of the byte was set and still is,
\* so get(5) is Some(true).
C20_Witness ==
    /\ origin = "raw" /\ extends = [count |-> 1, last |-> 1]
    /\ parts = [buffer |-> <<160>>, bits |-> 5, offset |-> 0]
    /\ input = <<FALSE>>
    /\ bitmap = [buffer |-> <<160>>, bits |-> 6, offset |-> 0]
    /\ Bitmap_get(bitmap, 5) = {Some(TRUE)}

====
